---- MODULE Spec2Model ----
(***************************************************************************)
(* Registry / plugin loader / factory of dkubiak789/patterns.              *)
(*   src/abstract_factory/abstract_factory.py : AbstractFactory, with the  *)
(*       class-level registry _runners, entry-point discovery in __init__, *)
(*       get_dao and register_runner                                       *)
(*   src/abstract_factory.py : QueryRunnerFactory.get_query_runner, the    *)
(*       closed if/elif dispatcher                                         *)
(* Classes, backend names and exception kinds are strings; a dict is a     *)
(* function whose DOMAIN is its key set.                                   *)
(***************************************************************************)
EXTENDS Integers, Sequences, FiniteSets, TLC

\* ------------------------------------------------------------------ bounds
\* AbstractFactory() calls made in one process (each runs one discovery).
MaxFactories == 2
\* Runner instances constructed in one process.
MaxRunners == 2
\* Entry points advertised in the group 'query_runners'.
MaxEntryPoints == 2

\* ------------------------------------------------------- values of the code
\* Python's None: what dict.get returns for a missing key.
None == "None"

\* The keys of the class attribute _runners as the class body sets it.
BuiltinNames == {"mongodb", "mysql", "bigquery"}

\* Backend names a caller asks for: the built-ins, a name that differs from a
\* built-in only in letter case, and a name an extension may add.
Names == BuiltinNames \cup {"MongoDB", "couchdb"}

\* Names under which extensions register or advertise: a fresh one and a
\* built-in one (an overwrite).
ExtensionNames == {"couchdb", "mongodb"}

\* The concrete runners of abstract_factory/abstract_factory.py.
BuiltinRunner(name) ==
    CASE name = "mongodb" -> "MongoDBRunner"
      [] name = "mysql" -> "MySQLRunner"
      [] name = "bigquery" -> "BigQueryRunner"

\* Concrete QueryRunner subclasses: the three built-ins and one shipped by an
\* external package.
ConcreteRunners == {"MongoDBRunner", "MySQLRunner", "BigQueryRunner", "CouchDBRunner"}

\* QueryRunner subclasses that leave get_number abstract (class X(QueryRunner): pass).
AbstractRunners == {"PartialRunner"}

\* Objects a caller can hand to register_runner, or an entry point can load to:
\* a distinguishable built-in class, an external concrete class, an abstract
\* subclass, a class outside the hierarchy, and an object that is no class.
RunnerClassArgs == {"MySQLRunner", "CouchDBRunner", "PartialRunner", "dict", None}

\* What entry_point.load() can raise: an Exception subclass, or an exception
\* that derives from BaseException only.
LoadFailures == {"ImportError", "SystemExit"}

\* The exception kinds that derive from Exception (`except Exception` catches them).
ExceptionSubclasses == {"ImportError", "TypeError", "ValueError"}

\* get_number's configuration argument: json-like dicts (the empty one, and the
\* query options of the usage example with its SQL text abbreviated).
EmptyDict == [k \in {} |-> ""]

QueryOptions ==
    [k \in {"sql_statement", "return_value"} |->
        IF k = "sql_statement" THEN "select count as the_number from orders"
                               ELSE "the_number"]

Configurations == {EmptyDict, QueryOptions}

\* Results an externally shipped runner's get_number may give.
ExternalNumbers == {4}

\* ------------------------------------------------------ Python's semantics
\* A faulty variant of DictGet: a lookup that folds the key's letter case.
Lower(k) == IF k = "MongoDB" THEN "mongodb" ELSE k

DictGetIgnoreCase(d, k) == IF Lower(k) \in DOMAIN d THEN d[Lower(k)] ELSE None

\* d.get(k): the value, or None for a missing key.
DictGet(d, k) == IF k \in DOMAIN d THEN d[k] ELSE None

\* d[k] = v
DictSet(d, k, v) == [x \in (DOMAIN d) \cup {k} |-> IF x = k THEN v ELSE d[x]]

\* issubclass(c, QueryRunner): "True", "False", or "TypeError" when c is no class.
Issubclass(c) ==
    IF c = None THEN "TypeError"
    ELSE IF c \in ConcreteRunners \cup AbstractRunners THEN "True"
    ELSE "False"

\* A runner instance is its identity and its class; NoRunner stands for the
\* caller's variable before any factory call returned.
NoRunner == [id |-> 0, cls |-> None]


\* --------------------------------------------------------------- the state
VARIABLES
    runners,       \* AbstractFactory._runners, the class attribute: name -> class
    instances,     \* the AbstractFactory instances constructed, each with its __dict__
    discoveries,   \* calls of _load_external_runners so far
    allocated,     \* runner instances constructed so far (identities 1..allocated)
    query_runner,  \* the caller's variable: the runner the last factory call returned
    last           \* history: the last call, its arguments and its outcome

vars == <<runners, instances, discoveries, allocated, query_runner, last>>

\* An instance as object.__new__ leaves it: __init__ assigns no attribute, so
\* self._runners resolves to the class attribute.
NewFactory == [has |-> FALSE, runners |-> EmptyDict]

\* The advertised entry points: a name and what load() gives (a class or other
\* object, or an exception).
EntryPoints ==
    {[name |-> "couchdb", target |-> "CouchDBRunner"],
     [name |-> "mongodb", target |-> "CouchDBRunner"],
     [name |-> "couchdb", target |-> "PartialRunner"],
     [name |-> "couchdb", target |-> "dict"],
     [name |-> "couchdb", target |-> None],
     [name |-> "couchdb", target |-> "ImportError"],
     [name |-> "couchdb", target |-> "SystemExit"]}

RECURSIVE SeqsUpTo(_, _)
SeqsUpTo(S, n) ==
    IF n = 0 THEN {<<>>}
    ELSE LET shorter == SeqsUpTo(S, n - 1)
         IN shorter \cup {Append(q, x) : q \in {r \in shorter : Len(r) = n - 1}, x \in S}

\* What iter_entry_points(group='query_runners') can yield.
EntryPointLists == SeqsUpTo(EntryPoints, MaxEntryPoints)

\* The record of a call, with the fields a call does not use left at these values.
Call(op) ==
    [op |-> op, name |-> "", arg |-> None, exc |-> "none", printed |-> 0,
     cfg |-> EmptyDict, value |-> 0]

\* The class body of AbstractFactory: the registry holds the three built-ins.
Init ==
    /\ runners = [n \in BuiltinNames |-> BuiltinRunner(n)]
    /\ instances = <<>>
    /\ discoveries = 0
    /\ allocated = 0
    /\ query_runner = NoRunner
    /\ last = Call("import")

\* ------------------------------------------------------- attribute access
\* self._runners: the instance attribute when the instance has one, else the
\* class attribute.
RunnersOf(rs, insts, self) ==
    IF insts[self].has THEN insts[self].runners ELSE rs

\* A faulty variant of StoreRunner: the assignment rebinds self._runners to a copy owned
\* by the instance (self._runners = {**self._runners, name: runner_class}).
StoreRunnerOnInstance(heap, self, name, runner_class) ==
    [heap EXCEPT !.inst[self] =
        [has |-> TRUE,
         runners |-> DictSet(RunnersOf(heap.cls, heap.inst, self), name, runner_class)]]

\* self._runners[name] = runner_class: item assignment on the dict that
\* self._runners resolves to. heap = [cls |-> class dict, inst |-> instances].
StoreRunner(heap, self, name, runner_class) ==
    IF heap.inst[self].has
    THEN [heap EXCEPT !.inst[self].runners = DictSet(@, name, runner_class)]
    ELSE [heap EXCEPT !.cls = DictSet(@, name, runner_class)]

\* entry_point.load(): the object, or the exception it raises.
Load(entry_point) ==
    IF entry_point.target \in LoadFailures
    THEN [exc |-> entry_point.target, value |-> None]
    ELSE [exc |-> "none", value |-> entry_point.target]

\* ------------------------------------------------- _load_external_runners
\* One pass of the for loop from entry k on. st = [heap, exc, printed]: printed
\* counts the diagnostics printed. An exception the except clause does not
\* catch ends the loop.
RECURSIVE LoadFrom(_, _, _, _)
LoadFrom(self, eps, k, st) ==
    IF k > Len(eps) THEN st
    ELSE LET entry_point == eps[k]
             loaded == Load(entry_point)
             runner_class == loaded.value
             caught == [st EXCEPT !.printed = @ + 1]
         IN  IF loaded.exc # "none"
             THEN IF loaded.exc \in ExceptionSubclasses
                  THEN LoadFrom(self, eps, k + 1, caught)
                  ELSE [st EXCEPT !.exc = loaded.exc]
             ELSE IF Issubclass(runner_class) = "TypeError"
             THEN LoadFrom(self, eps, k + 1, caught)
             ELSE IF Issubclass(runner_class) = "True"
             THEN LoadFrom(self, eps, k + 1,
                           [st EXCEPT !.heap = StoreRunner(@, self, entry_point.name, runner_class)])
             ELSE LoadFrom(self, eps, k + 1, st)

LoadExternalRunners(self, eps, heap) ==
    LoadFrom(self, eps, 1, [heap |-> heap, exc |-> "none", printed |-> 0])

\* A faulty variant of Construct: __init__ does not call _load_external_runners (a
\* discovery deferred to some later call).
ConstructLazy(eps) ==
    /\ discoveries < MaxFactories
    /\ Len(instances) < MaxFactories
    /\ instances' = Append(instances, NewFactory)
    /\ last' = Call("__init__")
    /\ UNCHANGED <<runners, discoveries, allocated, query_runner>>

\* ---------------------------------------------------------------- __init__
\* AbstractFactory(): a new instance, then _load_external_runners on it. When
\* the discovery lets an exception escape, the caller gets no instance.
Construct(eps) ==
    /\ discoveries < MaxFactories
    /\ \E st \in {LoadExternalRunners(Len(instances) + 1, eps,
                     [cls |-> runners, inst |-> Append(instances, NewFactory)])} :
           /\ runners' = st.heap.cls
           /\ instances' = IF st.exc = "none" THEN st.heap.inst
                           ELSE SubSeq(st.heap.inst, 1, Len(instances))
           /\ last' = [Call("__init__") EXCEPT !.exc = st.exc, !.printed = st.printed]
    /\ discoveries' = discoveries + 1
    /\ UNCHANGED <<allocated, query_runner>>

\* ----------------------------------------------------------------- get_dao
\* A faulty variant of NewInstance: one instance per process, handed out again.
CachedInstance(runner_class) ==
    [id |-> 1, cls |-> runner_class]

\* runner_class(): a class with an abstract method left raises TypeError; any
\* other class gives a new object, distinct from every earlier one.
NewInstance(runner_class) ==
    [id |-> allocated + 1, cls |-> runner_class]

Instantiate(runner_class) ==
    IF runner_class \in AbstractRunners
    THEN [exc |-> "TypeError", value |-> NoRunner]
    ELSE [exc |-> "none", value |-> NewInstance(runner_class)]

\* get_dao's result for the registry self sees: ValueError when .get gives
\* None, else what the constructor call gives.
GetDaoResult(registry, runner_name) ==
    LET runner_class == DictGet(registry, runner_name)
    IN  IF runner_class = None
        THEN [exc |-> "ValueError", value |-> NoRunner]
        ELSE Instantiate(runner_class)

\* query_runner = factory.get_dao(runner_name); an exception leaves the
\* caller's variable as it was.
GetDao(self, runner_name) ==
    /\ self \in DOMAIN instances
    /\ allocated < MaxRunners
    /\ \E res \in {GetDaoResult(RunnersOf(runners, instances, self), runner_name)} :
           /\ query_runner' = IF res.exc = "none" THEN res.value ELSE query_runner
           /\ allocated' = IF res.exc = "none" THEN res.value.id ELSE allocated
           /\ last' = [Call("get_dao") EXCEPT !.name = runner_name, !.exc = res.exc]
    /\ UNCHANGED <<runners, instances, discoveries>>

\* --------------------------------------------------------- register_runner
\* A faulty variant of RegisterResult: the item assignment made before the check.
RegisterThenCheck(registry, name, runner_class) ==
    [exc |-> IF Issubclass(runner_class) # "True" THEN "TypeError" ELSE "none",
     registry |-> DictSet(registry, name, runner_class)]

\* The classmethod's outcome on the class dict: TypeError from the check (or
\* from issubclass itself when runner_class is no class), else the item
\* assignment cls._runners[name] = runner_class.
RegisterResult(registry, name, runner_class) ==
    IF Issubclass(runner_class) # "True"
    THEN [exc |-> "TypeError", registry |-> registry]
    ELSE [exc |-> "none", registry |-> DictSet(registry, name, runner_class)]

RegisterRunner(name, runner_class) ==
    /\ \E res \in {RegisterResult(runners, name, runner_class)} :
           /\ runners' = res.registry
           /\ last' = [Call("register_runner") EXCEPT !.name = name, !.arg = runner_class,
                                                      !.exc = res.exc]
    /\ UNCHANGED <<instances, discoveries, allocated, query_runner>>

\* ------------------------------------- QueryRunnerFactory.get_query_runner
\* The if/elif chain of abstract_factory.py.
GetQueryRunnerResult(name) ==
    IF name = "mongodb" THEN [exc |-> "none", value |-> NewInstance("MongoDBQueryRunner")]
    ELSE IF name = "mysql" THEN [exc |-> "none", value |-> NewInstance("MySQLQueryRunner")]
    ELSE IF name = "bigquery" THEN [exc |-> "none", value |-> NewInstance("BigQueryQueryRunner")]
    ELSE [exc |-> "ValueError", value |-> NoRunner]

GetQueryRunner(name) ==
    /\ allocated < MaxRunners
    /\ \E res \in {GetQueryRunnerResult(name)} :
           /\ query_runner' = IF res.exc = "none" THEN res.value ELSE query_runner
           /\ allocated' = IF res.exc = "none" THEN res.value.id ELSE allocated
           /\ last' = [Call("get_query_runner") EXCEPT !.name = name, !.exc = res.exc]
    /\ UNCHANGED <<runners, instances, discoveries>>

\* -------------------------------------------------------------- get_number
\* A faulty variant of GetNumberResult: the number read from the configuration when it
\* names a return value.
GetNumberFromConfiguration(runner_class, configuration, external) ==
    [configuration |-> configuration,
     value |-> IF "return_value" \in DOMAIN configuration THEN 0
               ELSE CASE runner_class \in {"MongoDBRunner", "MongoDBQueryRunner"} -> 1
                      [] runner_class \in {"MySQLRunner", "MySQLQueryRunner"} -> 2
                      [] runner_class \in {"BigQueryRunner", "BigQueryQueryRunner"} -> 3
                      [] OTHER -> external]

\* The stubs: a constant per class, the configuration neither read nor written.
\* external is the number an externally shipped runner computes.
GetNumberResult(runner_class, configuration, external) ==
    [configuration |-> configuration,
     value |-> CASE runner_class \in {"MongoDBRunner", "MongoDBQueryRunner"} -> 1
                 [] runner_class \in {"MySQLRunner", "MySQLQueryRunner"} -> 2
                 [] runner_class \in {"BigQueryRunner", "BigQueryQueryRunner"} -> 3
                 [] OTHER -> external]

\* result = query_runner.get_number(query_options)
GetNumber(configuration) ==
    /\ query_runner # NoRunner
    /\ \E external \in ExternalNumbers :
         LET res == GetNumberResult(query_runner.cls, configuration, external)
         IN  last' = [Call("get_number") EXCEPT !.cfg = res.configuration,
                                                !.value = res.value]
    /\ UNCHANGED <<runners, instances, discoveries, allocated, query_runner>>

\* ------------------------------------------------------- the specification
Next ==
    \/ \E eps \in EntryPointLists : Construct(eps)
    \/ \E self \in 1..MaxFactories, runner_name \in Names : GetDao(self, runner_name)
    \/ \E name \in ExtensionNames, runner_class \in RunnerClassArgs : RegisterRunner(name, runner_class)
    \/ \E name \in Names : GetQueryRunner(name)
    \/ \E configuration \in Configurations : GetNumber(configuration)

Spec == Init /\ [][Next]_vars

\* ------------------------------------------------------------------ claims
\* What a call that fails leaves alone: everything but the record of the call.
NothingChanged ==
    UNCHANGED <<runners, instances, discoveries, allocated, query_runner>>

\* The registry instance self resolves names in.
Registry(self) == RunnersOf(runners, instances, self)

\* C1: get_dao(name) for a name that is no key of the registry (a name that
\* differs from a registered one only in letter case included) raises
\* ValueError, returns nothing and leaves the registry as it was; so does
\* get_query_runner for a name outside its three branches.
C1_UnknownNameRaisesValueError ==
    [][/\ (last'.op = "get_dao" /\ last'.name \notin DOMAIN runners)
            => (last'.exc = "ValueError" /\ NothingChanged)
       /\ (last'.op = "get_query_runner" /\ last'.name \notin BuiltinNames)
            => (last'.exc = "ValueError" /\ NothingChanged)]_vars

\* C1 happens: after an extension was registered, a lookup of "MongoDB" failed
\* with ValueError.
C1_Witness ==
    /\ last.op = "get_dao"
    /\ last.name = "MongoDB"
    /\ last.exc = "ValueError"
    /\ "couchdb" \in DOMAIN runners

\* C5: get_dao never changes the name-to-class mapping, and each successful
\* call returns a new instance (an identity no earlier instance has) of the
\* class registered under the name.
C5_GetDaoReadOnlyAndFresh ==
    [][last'.op = "get_dao"
         => /\ runners' = runners
            /\ instances' = instances
            /\ last'.exc = "none"
                 => /\ query_runner'.id \notin 0..allocated
                    /\ query_runner'.cls = runners[last'.name]]_vars

\* C5 happens: a second instance was returned by get_dao.
C5_Witness ==
    /\ last.op = "get_dao"
    /\ last.exc = "none"
    /\ query_runner.id = 2

\* C6: register_runner with a class that is no QueryRunner subclass raises
\* TypeError and changes nothing: no entry is added and an existing entry keeps
\* its class.
C6_RejectedRegistrationChangesNothing ==
    [][(last'.op = "register_runner" /\ Issubclass(last'.arg) = "False")
         => (last'.exc = "TypeError" /\ NothingChanged)]_vars

\* C6 happens: dict was refused for the registered name "mongodb".
C6_Witness ==
    /\ last.op = "register_runner"
    /\ last.name = "mongodb"
    /\ last.arg = "dict"
    /\ last.exc = "TypeError"
    /\ runners["mongodb"] = "MongoDBRunner"

\* The number the task fixes for each built-in backend.
ExpectedNumber(name) ==
    CASE name = "mongodb" -> 1
      [] name = "mysql" -> 2
      [] name = "bigquery" -> 3

C8_DiscoveryOncePerProcess ==
    [][/\ discoveries >= 1 => discoveries' = discoveries
       /\ last'.op = "get_dao" => discoveries = 1]_vars

\* C8, amended: the discovery step runs once in every AbstractFactory()
\* call and in no other operation; get_dao is served only by an instance whose
\* construction ran it, so at least one run precedes every get_dao; a further
\* construction runs it again.
C8_DiscoveryOncePerConstruction ==
    [][/\ last'.op = "__init__" => discoveries' = discoveries + 1
       /\ last'.op # "__init__" => discoveries' = discoveries
       /\ Len(instances') <= discoveries'
       /\ last'.op = "get_dao" => (discoveries >= 1 /\ Len(instances) >= 1)]_vars

\* C8 happens: get_dao was served after the discovery step had run twice.
C8_Witness ==
    /\ last.op = "get_dao"
    /\ discoveries = 2
    /\ Len(instances) = 2

\* C10: all instances resolve every name alike; a successful register_runner
\* and every discovery of a construction show at once on every instance,
\* earlier ones included; no name ever leaves the registry, which always holds
\* "mongodb", "mysql" and "bigquery".
C10_OneSharedGrowingRegistry ==
    [][/\ \A i \in DOMAIN instances' : \A n \in Names :
            DictGet(RunnersOf(runners', instances', i), n) = DictGet(runners', n)
       /\ (last'.op = "register_runner" /\ last'.exc = "none")
            => \A i \in DOMAIN instances' :
                 DictGet(RunnersOf(runners', instances', i), last'.name) = last'.arg
       /\ \A i \in DOMAIN instances :
            (DOMAIN Registry(i)) \subseteq (DOMAIN RunnersOf(runners', instances', i))
       /\ (DOMAIN runners) \subseteq (DOMAIN runners')
       /\ BuiltinNames \subseteq (DOMAIN runners')]_vars

\* C10 happens: with two instances alive, a name added after the built-ins was
\* resolved by get_dao.
C10_Witness ==
    /\ Len(instances) = 2
    /\ last.op = "get_dao"
    /\ last.name = "couchdb"
    /\ last.exc = "none"

\* C2: get_dao(x) right after an accepted register_runner(x, C) returns an
\* instance of C, also when x was registered before with another class (the
\* last registration wins).
C2_RegisteredClassIsReturned ==
    [][(/\ last.op = "register_runner"
        /\ last.exc = "none"
        /\ last'.op = "get_dao"
        /\ last'.name = last.name)
         => (/\ last'.exc = "none"
             /\ query_runner'.cls = last.arg
             /\ query_runner'.id \notin 0..allocated)]_vars

\* C4: every class the registry holds can be constructed into a runner: get_dao
\* of a registered name raises no construction error.
C4_RegistryHoldsOnlyConstructibleRunners ==
    /\ \A n \in DOMAIN runners : Instantiate(runners[n]).exc = "none"
    /\ (last.op = "get_dao" /\ last.name \in DOMAIN runners) => last.exc = "none"

\* The claim's kinds of entry: a valid one loads to a concrete QueryRunner
\* subclass; a broken one raises in load, or loads to no class, or to a class
\* outside the hierarchy.
ValidEntry(entry_point) == entry_point.target \in ConcreteRunners

BrokenEntry(entry_point) == entry_point.target \in LoadFailures \cup {None, "dict"}

\* C3: whatever the advertised entries and their order, no exception escapes
\* the discovery, every valid entry that no later subclass entry of the same
\* name replaces is registered under its name, and a name that only broken
\* entries declare is left as it was.
C3_DiscoveryIsolatesBrokenPlugins ==
    [][\A eps \in EntryPointLists :
         Construct(eps)
         => /\ last'.exc = "none"
            /\ Len(instances') = Len(instances) + 1
            /\ \A k \in DOMAIN eps :
                 (/\ ValidEntry(eps[k])
                  /\ \A j \in DOMAIN eps :
                       (j > k /\ eps[j].name = eps[k].name) => BrokenEntry(eps[j]))
                 => DictGet(runners', eps[k].name) = eps[k].target
            /\ \A n \in ExtensionNames :
                 (\A k \in DOMAIN eps : eps[k].name = n => BrokenEntry(eps[k]))
                 => DictGet(runners', n) = DictGet(runners, n)]_vars

\* C9: a construction that discovers a valid plugin for a name makes get_dao
\* of that name return the plugin's class, whatever held the name before; a
\* register_runner(name, C) made once a factory exists makes the next
\* get_dao(name) return an instance of C.
C9_LastWriteWinsAcrossSources ==
    [][/\ \A eps \in EntryPointLists :
            (Construct(eps) /\ last'.exc = "none")
            => \A k \in DOMAIN eps :
                 (/\ ValidEntry(eps[k])
                  /\ \A j \in DOMAIN eps : j > k => eps[j].name # eps[k].name)
                 => GetDaoResult(RunnersOf(runners', instances', Len(instances')),
                                 eps[k].name).value.cls = eps[k].target
       /\ (/\ last.op = "register_runner"
           /\ last.exc = "none"
           /\ Len(instances) >= 1
           /\ last'.op = "get_dao"
           /\ last'.name = last.name)
            => (last'.exc = "none" /\ query_runner'.cls = last.arg)]_vars

====
